---- MODULE Spec2Model ----
(***************************************************************************)
(* Model of src/main.py: the Chainlit homework tutor.                      *)
(*                                                                         *)
(* The module is loaded (the credential check of line 26), then one chat   *)
(* session is modelled.  on_chat_start creates the empty history           *)
(* and shows the welcome message; on_message is cut at its await points    *)
(* (msg.send, homework_guardrail, every event of result.stream_events,     *)
(* msg.stream_token, msg.update).  The guardrail agent, the streamed run   *)
(* and the Chainlit message operations are external calls: each either     *)
(* returns one of its possible results or raises.                          *)
(*                                                                         *)
(* Text is a sequence of characters; the three fixed notices are one       *)
(* opaque character each, which the streamed alphabet does not contain.    *)
(* Line 125 of the source reads "try:git"; the handler is modelled with    *)
(* the try block that the except clause of line 158 closes.                *)
(***************************************************************************)
EXTENDS Integers, Sequences, FiniteSets, TLC

VARIABLES
    pc,           \* position of the session: "nosession", "idle", or a point of on_message
    history,      \* cl.user_session "history": sequence of turns
    nShown,       \* number of messages displayed in the chat of the session
    displayed,    \* what the chat displays for the newest message (the one the handler sent)
    content,      \* msg.content of the handler's cl.Message object
    full_output,  \* the local accumulator of on_message
    outcome,      \* how the handling of the current message ended
    raised,       \* text of the exception caught by "except Exception as e", or NoError
    nEvents,      \* number of events the stream has yielded in this run
    verdict,      \* is_homework of the manual guardrail call: "unset", "homework", "not_homework"
    final_output, \* result.final_output: "unset", "None", "object"
    preHistory,   \* history as on_message found it (observation)
    userMsg,      \* message.content of the current message (observation)
    guardInput,   \* input_data of the manual guardrail call (observation)
    guardCalls,   \* number of manual guardrail calls made for this message (observation)
    fragments,    \* the text deltas the stream emitted in this run, in arrival order (observation)
    received,     \* contents of all incoming messages of the session, in order (observation)
    sentNow,      \* number of messages sent to the chat while handling this message (observation)
    tripwire,     \* where a guardrail tripwire was triggered: "none", "manual", "run" (observation)
    faulted,      \* a message of the session has ended FAULTED (observation)
    preShown,     \* number of messages displayed when on_message began (observation)
    nRejected,    \* number of messages of the session the manual guardrail rejected (observation)
    runs,         \* number of Runner.run_streamed calls made for this message (observation)
    gemini_api_key, \* os.getenv("GEMINI_API_KEY"): "None" when absent, "" or a key
    hooks,        \* the session hooks registered with Chainlit
    store,        \* several sessions: the list each session keeps under "history", or "none"
    lists,        \* several sessions: the turns held by each list object
    task,         \* several sessions: the position and locals of each session's handler
    profiles,     \* the module-level provider, model, run config and agents
    actor         \* several sessions: the session whose hook took the last step (observation)

vars == << pc, history, nShown, displayed, content, full_output, outcome, raised, nEvents,
           verdict, final_output, preHistory, userMsg, guardInput, guardCalls,
           fragments, received, sentNow, tripwire, faulted, preShown,
           nRejected, runs, gemini_api_key, hooks,
           store, lists, task, profiles, actor >>

----------------------------------------------------------------------------
(* Bounds *)

MaxMsgs == 2       \* incoming messages per session
MaxEvents == 2     \* events one streamed run yields
MaxSessMsgs == 1   \* incoming messages per session when several sessions run
MaxSessEvents == 1 \* events one streamed run yields when several sessions run

----------------------------------------------------------------------------
(* Texts *)

Whitespace == {" ", "\n", "\t"}

Alphabet == {"a", " "}

Messages == {<<"q">>, <<"r">>}

Deltas == {<<>>} \cup {<<c>> : c \in Alphabet}

NoError == <<"no exception">>

Errors == {<<"b", "o", "o", "m">>}

TripwireError == <<"Guardrail InputGuardrail triggered tripwire">>

Placeholder == <<" ">>

Welcome == <<"Welcome to AI Tutor Assistant!">>

RejectionText == <<"That question isn't allowed. Please ask only about **Math**, **History**">>

FallbackText == <<"Sorry, I can only help with Math or History questions related to MHI topics.">>

ErrorNotice(e) == <<"Oops! Something went wrong:", "\n", "\n", "backquote">> \o e \o <<"backquote">>

RECURSIVE LStrip(_)
LStrip(s) ==
    IF s = <<>> THEN <<>>
    ELSE IF Head(s) \in Whitespace THEN LStrip(Tail(s)) ELSE s

RECURSIVE RStrip(_)
RStrip(s) ==
    IF s = <<>> THEN <<>>
    ELSE IF s[Len(s)] \in Whitespace THEN RStrip(SubSeq(s, 1, Len(s) - 1)) ELSE s

Strip(s) == RStrip(LStrip(s))

Turn(r, c) == [role |-> r, content |-> c]

----------------------------------------------------------------------------
(* Process start *)

\* line 19: os.getenv returns None for an absent variable, else its value
Credentials == {"None", "", "key"}

\* a check that only recognises the empty string
Missing_OnlyEmpty(key) == key = ""

\* line 26: not gemini_api_key
Missing(key) == key \in {"None", ""}

\* lines 30-92: provider, model, config and the four agents, built once
Profiles ==
    [model |-> "gemini-2.0-flash",
     tracing_disabled |-> TRUE,
     agents |-> {"Guardrail check", "Math Tutor", "History Tutor", "Triage Agent"},
     handoffs |-> {"History Tutor", "Math Tutor"},
     input_guardrails |-> {"homework_guardrail"}]

Sessions == {"s1", "s2"}

\* the text the user of each session sends
MessagesOf(s) == IF s = "s1" THEN {<<"q">>} ELSE {<<"r">>}

NoTask == [pc |-> "nosession", full_output |-> <<>>, nEvents |-> 0, nMsgs |-> 0]

----------------------------------------------------------------------------
(* Session start *)

Init ==
    /\ pc = "startup"
    /\ gemini_api_key \in Credentials
    /\ hooks = {}
    /\ nRejected = 0
    /\ runs = 0
    /\ store = [s \in Sessions |-> "none"]
    /\ lists = [s \in Sessions |-> <<>>]
    /\ task = [s \in Sessions |-> NoTask]
    /\ profiles = Profiles
    /\ actor = "none"
    /\ history = <<>>
    /\ nShown = 0
    /\ displayed = <<>>
    /\ content = <<>>
    /\ full_output = <<>>
    /\ outcome = "NONE"
    /\ raised = NoError
    /\ nEvents = 0
    /\ verdict = "unset"
    /\ final_output = "unset"
    /\ preHistory = <<>>
    /\ userMsg = <<>>
    /\ guardInput = <<>>
    /\ guardCalls = 0
    /\ fragments = <<>>
    /\ received = <<>>
    /\ sentNow = 0
    /\ tripwire = "none"
    /\ faulted = FALSE
    /\ preShown = 0

\* lines 18-27, 95, 117: the module is loaded; without a credential the
\* ValueError of line 27 ends the load before the hooks are registered
module_startup ==
    /\ pc = "startup"
    /\ IF Missing(gemini_api_key)
       THEN /\ pc' = "startup_failed"
            /\ UNCHANGED hooks
       ELSE /\ pc' = "nosession"
            /\ hooks' = {"on_chat_start", "on_message"}
    /\ UNCHANGED << history, nShown, displayed, content, full_output, outcome,
                    raised, nEvents, verdict, final_output, preHistory, userMsg,
                    guardInput, guardCalls, fragments, received, sentNow,
                    tripwire, faulted, preShown, nRejected, runs, gemini_api_key,
                    store, lists, task, profiles, actor >>

on_chat_start ==
    /\ pc = "nosession"
    /\ "on_chat_start" \in hooks
    /\ history' = <<>>
    /\ nShown' = nShown + 1
    /\ displayed' = Welcome
    /\ pc' = "idle"
    /\ UNCHANGED << content, full_output, outcome, raised, nEvents, verdict,
                    final_output, preHistory, userMsg, guardInput, guardCalls,
                    fragments, received, sentNow, tripwire, faulted, preShown,
                    nRejected, runs, gemini_api_key, hooks,
                    store, lists, task, profiles, actor >>

----------------------------------------------------------------------------
(* Pieces of on_message *)

\* a user turn stored under the assistant role
AppendUser_WrongRole(h, m) == Append(h, Turn("assistant", m))

\* a user turn that replaces the history instead of extending it
AppendUser_Overwrites(h, m) == <<Turn("user", m)>>

\* line 120: history.append({"role": "user", "content": message.content})
AppendUser(h, m) == Append(h, Turn("user", m))

\* a guardrail that is given the newest turn only
GuardrailInput_LastTurn(h) == <<h[Len(h)]>>

\* line 127: input_data=history
GuardrailInput(h) == h

\* the tripwire with the negation of line 70 left out
TripwireTriggered_Inverted(is_homework) == is_homework

\* line 70: tripwire_triggered=not final_output.is_homework
TripwireTriggered(is_homework) == ~is_homework

\* an accumulator that puts each new delta in front
Accumulate_Prepend(acc, delta) == delta \o acc

\* line 145: full_output += event.data.delta
Accumulate(acc, delta) == acc \o delta

\* line 146: msg.stream_token(delta) appends a non-empty token to the message
StreamToken(c, token) == IF token = <<>> THEN c ELSE c \o token

\* a fallback test that looks at the final output only
IsFallback_OnlyNone(fo, out) == fo = "None"

\* the fallback test without the strip()
IsFallback_NoStrip(fo, out) == fo = "None" \/ out = <<>>

\* line 150: final_output is None or full_output.strip() == ""
IsFallback(fo, out) == fo = "None" \/ Strip(out) = <<>>

\* lines 150-153: the content set before the last msg.update()
FinalContent(fo, out) == IF IsFallback(fo, out) THEN FallbackText ELSE out

\* a delivery that stores the stripped text
FinalHistory_Stripped(h, fo, out) ==
    IF fo = "None" \/ Strip(out) = <<>> THEN h
    ELSE Append(h, Turn("assistant", Strip(out)))

\* a delivery that appends the assistant turn twice
FinalHistory_Twice(h, fo, out) ==
    IF fo = "None" \/ Strip(out) = <<>> THEN h
    ELSE Append(Append(h, Turn("assistant", out)), Turn("assistant", out))

\* lines 150-154: the history after the stream has ended
FinalHistory(h, fo, out) ==
    IF IsFallback(fo, out) THEN h ELSE Append(h, Turn("assistant", out))

\* an update that shows a further message instead of replacing the one sent
UpdateShown_SendsAnother(n, c) == [count |-> n + 1, text |-> c]

\* line 161 (and 131, 156): msg.update() shows msg.content in place of the message sent
UpdateShown(n, c) == [count |-> n, text |-> c]

----------------------------------------------------------------------------
(* on_message *)

\* lines 119-122: read the history, append the user turn, build the placeholder
on_message(m) ==
    /\ pc \in {"idle", "done"}
    /\ "on_message" \in hooks
    /\ Len(received) < MaxMsgs
    /\ preHistory' = history
    /\ userMsg' = m
    /\ received' = Append(received, m)
    /\ history' = AppendUser(history, m)
    /\ content' = Placeholder
    /\ full_output' = <<>>
    /\ outcome' = "NONE"
    /\ raised' = NoError
    /\ nEvents' = 0
    /\ verdict' = "unset"
    /\ final_output' = "unset"
    /\ guardInput' = <<>>
    /\ guardCalls' = 0
    /\ fragments' = <<>>
    /\ sentNow' = 0
    /\ tripwire' = "none"
    /\ preShown' = nShown
    /\ displayed' = <<>>
    /\ runs' = 0
    /\ pc' = "send"
    /\ UNCHANGED << nShown, faulted, nRejected, gemini_api_key, hooks,
                    store, lists, task, profiles, actor >>

\* line 123: await msg.send()
msg_send ==
    /\ pc = "send"
    /\ nShown' = nShown + 1
    /\ displayed' = content
    /\ sentNow' = sentNow + 1
    /\ pc' = "guardrail"
    /\ UNCHANGED << history, content, full_output, outcome, raised, nEvents,
                    verdict, final_output, preHistory, userMsg, guardInput,
                    guardCalls, fragments, received, tripwire, faulted, preShown,
                    nRejected, runs, gemini_api_key, hooks,
                    store, lists, task, profiles, actor >>

\* line 123 raising: outside the try block, the exception leaves on_message
msg_send_raises(e) ==
    /\ pc = "send"
    /\ raised' = e
    /\ outcome' = "ESCAPED"
    /\ pc' = "done"
    /\ UNCHANGED << history, nShown, displayed, content, full_output, nEvents, verdict,
                    final_output, preHistory, userMsg, guardInput, guardCalls,
                    fragments, received, sentNow, tripwire, faulted, preShown,
                    nRejected, runs, gemini_api_key, hooks,
                    store, lists, task, profiles, actor >>

\* lines 158-160: except Exception as e: msg.content = error notice
Caught(e) ==
    /\ raised' = e
    /\ content' = ErrorNotice(e)
    /\ pc' = "update_error"

\* a rejection that also records its notice in the history as an assistant turn
homework_guardrail_returns_records_notice(is_homework) ==
    /\ pc = "guardrail"
    /\ guardInput' = GuardrailInput(history)
    /\ guardCalls' = guardCalls + 1
    /\ verdict' = IF is_homework THEN "homework" ELSE "not_homework"
    /\ nRejected' = IF is_homework THEN nRejected ELSE nRejected + 1
    /\ IF TripwireTriggered(is_homework)
       THEN /\ content' = RejectionText
            /\ history' = Append(history, Turn("assistant", RejectionText))
            /\ tripwire' = "manual"
            /\ pc' = "update_rejection"
            /\ UNCHANGED runs
       ELSE /\ pc' = "stream"
            /\ runs' = runs + 1
            /\ UNCHANGED << history, content, tripwire >>
    /\ UNCHANGED << nShown, displayed, full_output, outcome, raised, nEvents,
                    final_output, preHistory, userMsg, fragments, received,
                    sentNow, faulted, preShown, gemini_api_key, hooks,
                    store, lists, task, profiles, actor >>

\* lines 127-141: the manual guardrail call returns a verdict
homework_guardrail_returns(is_homework) ==
    /\ pc = "guardrail"
    /\ guardInput' = GuardrailInput(history)
    /\ guardCalls' = guardCalls + 1
    /\ verdict' = IF is_homework THEN "homework" ELSE "not_homework"
    /\ nRejected' = IF is_homework THEN nRejected ELSE nRejected + 1
    /\ IF TripwireTriggered(is_homework)
       THEN /\ content' = RejectionText
            /\ tripwire' = "manual"
            /\ pc' = "update_rejection"
            /\ UNCHANGED runs
       ELSE /\ pc' = "stream"
            /\ runs' = runs + 1
            /\ UNCHANGED << content, tripwire >>
    /\ UNCHANGED << history, nShown, displayed, full_output, outcome, raised, nEvents,
                    final_output, preHistory, userMsg, fragments, received,
                    sentNow, faulted, preShown, gemini_api_key, hooks,
                    store, lists, task, profiles, actor >>

\* line 127 raising
homework_guardrail_raises(e) ==
    /\ pc = "guardrail"
    /\ guardInput' = GuardrailInput(history)
    /\ guardCalls' = guardCalls + 1
    /\ Caught(e)
    /\ UNCHANGED << history, nShown, displayed, full_output, outcome, nEvents, verdict,
                    final_output, preHistory, userMsg, fragments, received,
                    sentNow, tripwire, faulted, preShown,
                    nRejected, runs, gemini_api_key, hooks,
                    store, lists, task, profiles, actor >>

\* the rejection branch without its return: the handler goes on to the run
update_rejection_no_return ==
    /\ pc = "update_rejection"
    /\ nShown' = UpdateShown(nShown, content).count
    /\ displayed' = UpdateShown(nShown, content).text
    /\ runs' = runs + 1
    /\ pc' = "stream"
    /\ UNCHANGED << history, content, full_output, outcome, raised, nEvents,
                    verdict, final_output, preHistory, userMsg, guardInput,
                    guardCalls, fragments, received, sentNow, tripwire, faulted,
                    preShown, nRejected, gemini_api_key, hooks,
                    store, lists, task, profiles, actor >>

\* lines 131-132: await msg.update(); return
update_rejection ==
    /\ pc = "update_rejection"
    /\ nShown' = UpdateShown(nShown, content).count
    /\ displayed' = UpdateShown(nShown, content).text
    /\ outcome' = "REJECTED"
    /\ pc' = "done"
    /\ UNCHANGED << history, content, full_output, raised, nEvents, verdict,
                    final_output, preHistory, userMsg, guardInput, guardCalls,
                    fragments, received, sentNow, tripwire, faulted, preShown,
                    nRejected, runs, gemini_api_key, hooks,
                    store, lists, task, profiles, actor >>

\* line 131 raising
update_rejection_raises(e) ==
    /\ pc = "update_rejection"
    /\ Caught(e)
    /\ UNCHANGED << history, nShown, displayed, full_output, outcome, nEvents, verdict,
                    final_output, preHistory, userMsg, guardInput, guardCalls,
                    fragments, received, sentNow, tripwire, faulted, preShown,
                    nRejected, runs, gemini_api_key, hooks,
                    store, lists, task, profiles, actor >>

\* lines 143-146: a raw_response_event carrying a ResponseTextDeltaEvent
stream_text_delta(d) ==
    /\ pc = "stream"
    /\ nEvents < MaxEvents
    /\ nEvents' = nEvents + 1
    /\ fragments' = Append(fragments, d)
    /\ full_output' = Accumulate(full_output, d)
    /\ content' = StreamToken(content, d)
    /\ displayed' = StreamToken(displayed, d)
    /\ UNCHANGED << pc, history, nShown, outcome, raised, verdict, final_output,
                    preHistory, userMsg, guardInput, guardCalls, received,
                    sentNow, tripwire, faulted, preShown,
                    nRejected, runs, gemini_api_key, hooks,
                    store, lists, task, profiles, actor >>

\* lines 145-146: the delta is accumulated, then msg.stream_token raises
stream_token_raises(d, e) ==
    /\ pc = "stream"
    /\ nEvents < MaxEvents
    /\ d # <<>>
    /\ nEvents' = nEvents + 1
    /\ fragments' = Append(fragments, d)
    /\ full_output' = Accumulate(full_output, d)
    /\ Caught(e)
    /\ UNCHANGED << history, nShown, displayed, outcome, verdict, final_output, preHistory,
                    userMsg, guardInput, guardCalls, received, sentNow,
                    tripwire, faulted, preShown,
                    nRejected, runs, gemini_api_key, hooks,
                    store, lists, task, profiles, actor >>

\* lines 143-144: an event that is not a text delta is skipped
stream_other_event ==
    /\ pc = "stream"
    /\ nEvents < MaxEvents
    /\ nEvents' = nEvents + 1
    /\ UNCHANGED << pc, history, nShown, displayed, content, full_output, outcome, raised,
                    verdict, final_output, preHistory, userMsg, guardInput,
                    guardCalls, fragments, received, sentNow, tripwire,
                    faulted, preShown,
                    nRejected, runs, gemini_api_key, hooks,
                    store, lists, task, profiles, actor >>

\* lines 135-143 raising: the run or its event stream fails
stream_raises(e) ==
    /\ pc = "stream"
    /\ Caught(e)
    /\ UNCHANGED << history, nShown, displayed, full_output, outcome, nEvents, verdict,
                    final_output, preHistory, userMsg, guardInput, guardCalls,
                    fragments, received, sentNow, tripwire, faulted, preShown,
                    nRejected, runs, gemini_api_key, hooks,
                    store, lists, task, profiles, actor >>

\* lines 91, 143: the input guardrail of triage_agent trips inside the run,
\* which raises InputGuardrailTripwireTriggered out of stream_events()
stream_tripwire ==
    /\ pc = "stream"
    /\ tripwire' = "run"
    /\ Caught(TripwireError)
    /\ UNCHANGED << history, nShown, displayed, full_output, outcome, nEvents, verdict,
                    final_output, preHistory, userMsg, guardInput, guardCalls,
                    fragments, received, sentNow, faulted, preShown,
                    nRejected, runs, gemini_api_key, hooks,
                    store, lists, task, profiles, actor >>

\* lines 143-154: the stream ends; choose between fallback and delivery
stream_end(fo) ==
    /\ pc = "stream"
    /\ final_output' = fo
    /\ content' = FinalContent(fo, full_output)
    /\ history' = FinalHistory(history, fo, full_output)
    /\ pc' = "update_final"
    /\ UNCHANGED << nShown, displayed, full_output, outcome, raised, nEvents, verdict,
                    preHistory, userMsg, guardInput, guardCalls, fragments,
                    received, sentNow, tripwire, faulted, preShown,
                    nRejected, runs, gemini_api_key, hooks,
                    store, lists, task, profiles, actor >>

\* line 156: await msg.update()
update_final ==
    /\ pc = "update_final"
    /\ nShown' = UpdateShown(nShown, content).count
    /\ displayed' = UpdateShown(nShown, content).text
    /\ outcome' = IF IsFallback(final_output, full_output)
                  THEN "EMPTY_FALLBACK" ELSE "DELIVERED"
    /\ pc' = "done"
    /\ UNCHANGED << history, content, full_output, raised, nEvents, verdict,
                    final_output, preHistory, userMsg, guardInput, guardCalls,
                    fragments, received, sentNow, tripwire, faulted, preShown,
                    nRejected, runs, gemini_api_key, hooks,
                    store, lists, task, profiles, actor >>

\* line 156 raising
update_final_raises(e) ==
    /\ pc = "update_final"
    /\ Caught(e)
    /\ UNCHANGED << history, nShown, displayed, full_output, outcome, nEvents, verdict,
                    final_output, preHistory, userMsg, guardInput, guardCalls,
                    fragments, received, sentNow, tripwire, faulted, preShown,
                    nRejected, runs, gemini_api_key, hooks,
                    store, lists, task, profiles, actor >>

\* an error path that also starts the session history afresh
update_error_resets_history ==
    /\ pc = "update_error"
    /\ nShown' = UpdateShown(nShown, content).count
    /\ displayed' = UpdateShown(nShown, content).text
    /\ outcome' = "FAULTED"
    /\ faulted' = TRUE
    /\ history' = <<>>
    /\ pc' = "done"
    /\ UNCHANGED << content, full_output, raised, nEvents, verdict,
                    final_output, preHistory, userMsg, guardInput, guardCalls,
                    fragments, received, sentNow, tripwire, preShown,
                    nRejected, runs, gemini_api_key, hooks,
                    store, lists, task, profiles, actor >>

\* line 161: await msg.update() of the error notice
update_error ==
    /\ pc = "update_error"
    /\ nShown' = UpdateShown(nShown, content).count
    /\ displayed' = UpdateShown(nShown, content).text
    /\ outcome' = "FAULTED"
    /\ faulted' = TRUE
    /\ pc' = "done"
    /\ UNCHANGED << history, content, full_output, raised, nEvents, verdict,
                    final_output, preHistory, userMsg, guardInput, guardCalls,
                    fragments, received, sentNow, tripwire, preShown,
                    nRejected, runs, gemini_api_key, hooks,
                    store, lists, task, profiles, actor >>

\* line 161 raising: inside the except clause, the exception leaves on_message
update_error_raises(e) ==
    /\ pc = "update_error"
    /\ raised' = e
    /\ outcome' = "ESCAPED"
    /\ pc' = "done"
    /\ UNCHANGED << history, nShown, displayed, content, full_output, nEvents, verdict,
                    final_output, preHistory, userMsg, guardInput, guardCalls,
                    fragments, received, sentNow, tripwire, faulted, preShown,
                    nRejected, runs, gemini_api_key, hooks,
                    store, lists, task, profiles, actor >>

----------------------------------------------------------------------------

Next ==
    \/ module_startup
    \/ on_chat_start
    \/ \E m \in Messages : on_message(m)
    \/ msg_send
    \/ \E e \in Errors : msg_send_raises(e)
    \/ \E b \in BOOLEAN : homework_guardrail_returns(b)
    \/ \E e \in Errors : homework_guardrail_raises(e)
    \/ update_rejection
    \/ \E e \in Errors : update_rejection_raises(e)
    \/ \E d \in Deltas : stream_text_delta(d)
    \/ \E d \in Deltas, e \in Errors : stream_token_raises(d, e)
    \/ stream_other_event
    \/ \E e \in Errors : stream_raises(e)
    \/ stream_tripwire
    \/ \E fo \in {"None", "object"} : stream_end(fo)
    \/ update_final
    \/ \E e \in Errors : update_final_raises(e)
    \/ update_error
    \/ \E e \in Errors : update_error_raises(e)

Spec == Init /\ [][Next]_vars

----------------------------------------------------------------------------
(* Several sessions.  Each session runs the hooks above on its own user      *)
(* session; the handlers interleave at their await points.  Only what         *)
(* sessions could share is kept: the list stored under "history" and the      *)
(* module-level objects.  The message object and the texts shown are local    *)
(* to one handler and are left to the one-session specification.              *)

mvars == << pc, history, nShown, displayed, content, full_output, outcome, raised,
            nEvents, verdict, final_output, preHistory, userMsg, guardInput,
            guardCalls, fragments, received, sentNow, tripwire, faulted, preShown,
            nRejected, runs, gemini_api_key, hooks >>

\* one list object for every session, kept by all of them
NewList_Shared(s) == "s1"

\* line 97: the [] literal builds a new list object for the session
NewList(s) == s

\* line 119: cl.user_session.get("history") of session s
HistoryOf(s) == IF store[s] = "none" THEN <<>> ELSE lists[store[s]]

Moves(s, newpc) ==
    /\ task' = [task EXCEPT ![s].pc = newpc]
    /\ actor' = s
    /\ UNCHANGED << store, lists, profiles, mvars >>

\* lines 96-113
S_on_chat_start(s) ==
    /\ task[s].pc = "nosession"
    /\ store' = [store EXCEPT ![s] = NewList(s)]
    /\ lists' = [lists EXCEPT ![NewList(s)] = <<>>]
    /\ task' = [task EXCEPT ![s].pc = "idle"]
    /\ actor' = s
    /\ UNCHANGED << profiles, mvars >>

\* lines 119-122
S_on_message(s, m) ==
    /\ task[s].pc \in {"idle", "done"}
    /\ task[s].nMsgs < MaxSessMsgs
    /\ lists' = [lists EXCEPT ![store[s]] = AppendUser(lists[store[s]], m)]
    /\ task' = [task EXCEPT ![s] = [pc |-> "send", full_output |-> <<>>,
                                    nEvents |-> 0, nMsgs |-> task[s].nMsgs + 1]]
    /\ actor' = s
    /\ UNCHANGED << store, profiles, mvars >>

\* line 123
S_msg_send(s) ==
    /\ task[s].pc = "send"
    /\ Moves(s, "guardrail")

\* lines 127-141
S_homework_guardrail_returns(s, is_homework) ==
    /\ task[s].pc = "guardrail"
    /\ Moves(s, IF TripwireTriggered(is_homework) THEN "update_rejection" ELSE "stream")

\* lines 143-146
S_stream_text_delta(s, d) ==
    /\ task[s].pc = "stream"
    /\ task[s].nEvents < MaxSessEvents
    /\ task' = [task EXCEPT ![s].full_output = Accumulate(task[s].full_output, d),
                            ![s].nEvents = task[s].nEvents + 1]
    /\ actor' = s
    /\ UNCHANGED << store, lists, profiles, mvars >>

\* lines 143-154
S_stream_end(s, fo) ==
    /\ task[s].pc = "stream"
    /\ lists' = [lists EXCEPT ![store[s]] =
                     FinalHistory(lists[store[s]], fo, task[s].full_output)]
    /\ task' = [task EXCEPT ![s].pc = "update_final"]
    /\ actor' = s
    /\ UNCHANGED << store, profiles, mvars >>

\* lines 127-160: a call inside the try block raises and is caught
S_caught(s) ==
    /\ task[s].pc \in {"guardrail", "update_rejection", "stream", "update_final"}
    /\ Moves(s, "update_error")

\* lines 131-132, 156, 161: msg.update() returns and the handler ends
S_update(s) ==
    /\ task[s].pc \in {"update_rejection", "update_final", "update_error"}
    /\ Moves(s, "done")

\* lines 123, 161: a call outside the try block raises and the handler ends
S_escapes(s) ==
    /\ task[s].pc \in {"send", "update_error"}
    /\ Moves(s, "done")

InitSessions == Init /\ gemini_api_key = "key"

NextSessions ==
    \E s \in Sessions :
        \/ S_on_chat_start(s)
        \/ \E m \in MessagesOf(s) : S_on_message(s, m)
        \/ S_msg_send(s)
        \/ \E b \in BOOLEAN : S_homework_guardrail_returns(s, b)
        \/ \E d \in Deltas : S_stream_text_delta(s, d)
        \/ \E fo \in {"None", "object"} : S_stream_end(s, fo)
        \/ S_caught(s)
        \/ S_update(s)
        \/ S_escapes(s)

SpecSessions == InitSessions /\ [][NextSessions]_vars

----------------------------------------------------------------------------
(* Operators used to state the properties *)

RECURSIVE Concat(_)
Concat(ss) == IF ss = <<>> THEN <<>> ELSE Head(ss) \o Concat(Tail(ss))

IsPrefix(s, t) == Len(s) <= Len(t) /\ SubSeq(t, 1, Len(s)) = s

Contains(s, sub) ==
    \E i \in 0..(Len(s) - Len(sub)) : SubSeq(s, i + 1, i + Len(sub)) = sub

Blank(s) == \A i \in 1..Len(s) : s[i] \in Whitespace

RECURSIVE UserContents(_)
UserContents(h) ==
    IF h = <<>> THEN <<>>
    ELSE IF Head(h).role = "user"
         THEN <<Head(h).content>> \o UserContents(Tail(h))
         ELSE UserContents(Tail(h))

AssistantCount(h) == Cardinality({i \in 1..Len(h) : h[i].role = "assistant"})

WithUserTurn == Append(preHistory, [role |-> "user", content |-> userMsg])

Finished == pc = "done"

Returned == pc = "done" /\ outcome # "ESCAPED"

StreamCompleted == final_output # "unset"

----------------------------------------------------------------------------
(* C1: rejection *)

\* C1 (as stated): whenever the guardrail verdict of a message is
\* is_homework = false, then when on_message has finished the history is the
\* pre-message history plus exactly the new user turn and the displayed
\* message is exactly the fixed rejection text.
C1_AsStated ==
    (Finished /\ verdict = "not_homework")
        => (history = WithUserTurn /\ displayed = RejectionText)

\* C1 (amended): whenever the guardrail verdict of a message is
\* is_homework = false, then when on_message has finished the history is the
\* pre-message history plus exactly the new user turn; the displayed message
\* is exactly the fixed rejection text unless msg.update() of the rejection
\* notice raised, in which case the message ends FAULTED or the exception
\* leaves the handler.
C1_RejectionLaw ==
    (Finished /\ verdict = "not_homework")
        => /\ history = WithUserTurn
           /\ outcome \in {"REJECTED", "FAULTED", "ESCAPED"}
           /\ (raised = NoError) = (outcome = "REJECTED")
           /\ (raised = NoError => displayed = RejectionText)

\* a rejected message that follows earlier turns of the session
C1_Witness ==
    /\ Finished /\ verdict = "not_homework" /\ outcome = "REJECTED"
    /\ AssistantCount(preHistory) > 0

----------------------------------------------------------------------------
(* C2: one outgoing message *)

----------------------------------------------------------------------------
(* C3: handled faults *)

\* C3: whenever an exception raised while a message is handled was caught
\* (the message ended FAULTED), the displayed notice contains the exception
\* text and no assistant turn has been appended for that message: the history
\* is the pre-message history plus only the user turn.
C3_FaultLeavesNoTurn ==
    (Finished /\ outcome = "FAULTED")
        => (Contains(displayed, raised) /\ history = WithUserTurn)

----------------------------------------------------------------------------
(* C4: propagation *)

\* C4: every exception raised at any step of handling one message is caught
\* inside on_message and converted to a visible notice; none leaves the
\* handler.
C4_NoFaultEscapes ==
    (Finished /\ raised # NoError)
        => (outcome = "FAULTED" /\ displayed = ErrorNotice(raised))

----------------------------------------------------------------------------
(* C5: the session after a fault *)

\* C5: once a message of the session has ended FAULTED, the history still
\* holds every earlier turn in order (the history the next handler found is a
\* prefix of it and its user turns are all the messages received), the next
\* message is accepted by on_message, and at each point of its handling the
\* same steps are possible as in a session without a fault: the guardrail can
\* accept or reject, the rejection can be shown, the stream can deliver text
\* and end with or without a final output, and the result can be shown.
C5_UsableAfterFault ==
    faulted
        => /\ IsPrefix(preHistory, history)
           /\ UserContents(history) = received
           /\ (pc = "done" /\ Len(received) < MaxMsgs
                  => \A m \in Messages : ENABLED on_message(m))
           /\ (pc = "send" => ENABLED msg_send)
           /\ (pc = "guardrail"
                  => \A b \in BOOLEAN : ENABLED homework_guardrail_returns(b))
           /\ (pc = "update_rejection" => ENABLED update_rejection)
           /\ (pc = "stream"
                  => /\ \A fo \in {"None", "object"} : ENABLED stream_end(fo)
                     /\ (nEvents < MaxEvents
                            => \A d \in Deltas : ENABLED stream_text_delta(d)))
           /\ (pc = "update_final" => ENABLED update_final)

\* a message delivered after an earlier message of the session ended FAULTED
C5_Witness ==
    /\ faulted /\ Finished /\ outcome = "DELIVERED"
    /\ Len(history) = Len(preHistory) + 2 /\ Len(preHistory) > 0

----------------------------------------------------------------------------
(* C6: fallback *)

\* C6 (as stated): for every accepted message whose stream has ended, if the
\* emitted fragments are none or only whitespace, or the final output is
\* absent, then when the handler has finished the displayed content is the
\* fixed fallback text and no assistant turn has been appended.
C6_AsStated ==
    (Finished /\ StreamCompleted
        /\ (Blank(Concat(fragments)) \/ final_output = "None"))
        => (displayed = FallbackText /\ history = WithUserTurn)

\* C6 (amended): for every accepted message whose stream has ended, if the
\* emitted fragments are none or only whitespace, or the final output is
\* absent, then no assistant turn is appended, and when the handler has
\* finished the displayed content is the fixed fallback text, whatever was
\* rendered during streaming, unless the final msg.update() raised, in which
\* case the message ends FAULTED or the exception leaves the handler.
C6_FallbackLaw ==
    (StreamCompleted /\ (Blank(Concat(fragments)) \/ final_output = "None"))
        => /\ history = WithUserTurn
           /\ content \in {FallbackText, ErrorNotice(raised)}
           /\ (Finished => outcome \in {"EMPTY_FALLBACK", "FAULTED", "ESCAPED"})
           /\ (Finished /\ raised = NoError
                  => outcome = "EMPTY_FALLBACK" /\ displayed = FallbackText)

\* the fallback replaces text already rendered: fragments were shown, the
\* final output is absent
C6_Witness ==
    /\ Finished /\ outcome = "EMPTY_FALLBACK" /\ final_output = "None"
    /\ ~Blank(Concat(fragments)) /\ displayed = FallbackText

----------------------------------------------------------------------------
(* C7: concatenation *)

\* C7 (as stated): for every message whose stream ran to completion, the
\* final displayed content equals the concatenation, in arrival order, of all
\* text fragments emitted for that turn.
C7_AsStated ==
    (Finished /\ StreamCompleted) => displayed = Concat(fragments)

\* C7 (amended): for every message whose stream ran to completion with a
\* final output present and accumulated text that is not blank, and whose
\* final msg.update() did not raise (the message ended DELIVERED), the final
\* displayed content, and the assistant turn appended, equal the
\* concatenation, in arrival order, of all text fragments emitted for that
\* turn; when the output is blank or absent the fallback text is shown instead.
C7_ConcatenationLaw ==
    /\ (Finished /\ StreamCompleted /\ raised = NoError
          /\ final_output = "object" /\ ~Blank(Concat(fragments)))
          => /\ outcome = "DELIVERED"
             /\ displayed = Concat(fragments)
             /\ history = Append(WithUserTurn,
                                 [role |-> "assistant", content |-> Concat(fragments)])
    /\ (Finished /\ outcome = "DELIVERED") => displayed = Concat(fragments)

\* a reply delivered from two different fragments
C7_Witness ==
    /\ Finished /\ outcome = "DELIVERED"
    /\ Len(fragments) = 2 /\ fragments[1] # fragments[2]
    /\ fragments[1] # <<>> /\ fragments[2] # <<>>

----------------------------------------------------------------------------
(* C8: tripwire inside the run *)

\* C8: whenever the guardrail attached to the triage agent trips during the
\* streamed run and the handler returns, the user is shown the fixed
\* rejection notice and no assistant turn is appended (as it is when the
\* manual call trips).
C8_TripwireShowsRejection ==
    (Returned /\ tripwire = "run")
        => (displayed = RejectionText /\ history = WithUserTurn)

----------------------------------------------------------------------------
(* C9: guardrail input *)

\* C9: for every message, first or later, no step after msg.send() is taken
\* without the guardrail having been evaluated exactly once, after the user
\* turn was appended; its input is the whole session history up to and
\* including that turn, so it holds the user turns of all messages received
\* so far, those of rejected and faulted messages included.
C9_GuardrailSeesWholeHistory ==
    /\ (pc \in {"update_rejection", "stream", "update_final"} \/ verdict # "unset")
          => guardCalls = 1
    /\ (pc \in {"send", "guardrail"} => guardCalls = 0)
    /\ guardCalls <= 1
    /\ guardCalls = 1
          => /\ guardInput = WithUserTurn
             /\ UserContents(guardInput) = received
             /\ IsPrefix(guardInput, history)

\* the guardrail of a second message, after a message that was rejected or faulted
C9_Witness ==
    /\ pc \in {"stream", "update_rejection"} /\ guardCalls = 1
    /\ Len(received) = 2 /\ AssistantCount(guardInput) = 0
    /\ Len(guardInput) = 2

----------------------------------------------------------------------------
(* C10: at most one assistant turn *)

\* C10: while one message is handled, on every path (delivery, fallback, a
\* fault at any step), at most one assistant turn is appended to the history,
\* and none unless the guardrail accepted the message.
C10_AtMostOneAssistantTurn ==
    /\ IsPrefix(WithUserTurn, history)
          \/ pc \in {"startup", "startup_failed", "nosession", "idle"}
    /\ AssistantCount(history) - AssistantCount(preHistory) <= 1
    /\ Len(history) - Len(preHistory) <= 2
    /\ (AssistantCount(history) > AssistantCount(preHistory)
          => verdict = "homework")

\* an assistant turn appended on the fault path: the final update raised
C10_Witness ==
    /\ Finished /\ outcome = "FAULTED" /\ verdict = "homework"
    /\ AssistantCount(history) = AssistantCount(preHistory) + 1

----------------------------------------------------------------------------
(* C11: repeated rejection *)

\* C11: starting from a fresh session, when every message received so far
\* was rejected by the guardrail and the last one has been handled, the
\* history holds exactly the user turns of those messages in arrival order
\* and no assistant turn.
C11_RejectionIdempotent ==
    (Finished /\ nRejected = Len(received))
        => /\ history = [i \in 1..Len(received)
                            |-> [role |-> "user", content |-> received[i]]]
           /\ AssistantCount(history) = 0

\* two different messages in a row, both rejected
C11_Witness ==
    /\ Finished /\ nRejected = 2 /\ Len(received) = 2
    /\ outcome = "REJECTED" /\ received[1] # received[2]

----------------------------------------------------------------------------
(* C12: append-only history *)

\* C12: after session start every step leaves the history as it is or
\* extends it by one turn at the end: the earlier history is a prefix of the
\* later one, so no turn is removed, reordered or edited.
C12_AppendOnly ==
    [][pc \notin {"startup", "nosession"}
          => /\ IsPrefix(history, history')
             /\ Len(history') <= Len(history) + 1]_vars

\* a history of four turns: two messages, both delivered
C12_Witness ==
    Finished /\ Len(history) = 4 /\ AssistantCount(history) = 2

----------------------------------------------------------------------------
(* C13: delivery *)

\* C13 (as stated): when the stream of an accepted message has ended with
\* non-empty accumulated text and a final output object, exactly one turn has
\* been appended after the user turn, with role "assistant" and the full
\* concatenation of the streamed fragments as content.
C13_AsStated ==
    (StreamCompleted /\ final_output = "object" /\ Concat(fragments) # <<>>)
        => history = Append(WithUserTurn,
                            [role |-> "assistant", content |-> Concat(fragments)])

\* C13 (amended): when the stream of an accepted message has ended with a
\* final output object and accumulated text that is not empty and not
\* whitespace-only, exactly one turn has been appended after the user turn,
\* with role "assistant" and the full, unstripped concatenation of the
\* streamed fragments as content; it is also the final displayed content
\* unless the final msg.update() raised.  Whitespace-only text appends no turn.
C13_DeliveryLaw ==
    /\ (StreamCompleted /\ final_output = "object" /\ ~Blank(Concat(fragments)))
          => /\ history = Append(WithUserTurn,
                                 [role |-> "assistant", content |-> Concat(fragments)])
             /\ (Finished /\ raised = NoError
                    => outcome = "DELIVERED" /\ displayed = Concat(fragments))
    /\ (StreamCompleted /\ Blank(Concat(fragments))) => history = WithUserTurn

\* a delivered reply that begins or ends with whitespace
C13_Witness ==
    /\ Finished /\ outcome = "DELIVERED"
    /\ Strip(Concat(fragments)) # Concat(fragments)
    /\ history[Len(history)].content = displayed

----------------------------------------------------------------------------
(* C16: missing credential *)

\* C16: when GEMINI_API_KEY is absent at process start, the load of the
\* module fails before any session hook is registered: no session is started,
\* no message is handled, nothing is displayed and no per-message error is
\* recorded.
C16_NoCredentialNoSession ==
    gemini_api_key = "None"
        => /\ pc \in {"startup", "startup_failed"}
           /\ hooks = {}
           /\ nShown = 0 /\ received = <<>> /\ history = <<>>
           /\ outcome = "NONE" /\ raised = NoError

\* the load has failed for want of the credential
C16_Witness ==
    gemini_api_key = "None" /\ pc = "startup_failed"

----------------------------------------------------------------------------
(* C17: triage after acceptance *)

\* C17: the streamed triage run of a message is started at most once and
\* only with the guardrail verdict is_homework = true received; for a
\* rejected message no run is started, no stream event is consumed, no
\* text fragment is accumulated or rendered: the message shows only the
\* placeholder, the rejection notice or an error notice.
C17_TriageOnlyAfterAccept ==
    /\ runs <= 1
    /\ (runs = 1) = (verdict = "homework")
    /\ (pc \in {"stream", "update_final"} \/ nEvents > 0 \/ fragments # <<>>
           \/ StreamCompleted \/ tripwire = "run")
          => (runs = 1 /\ verdict = "homework")
    /\ verdict = "not_homework"
          => /\ runs = 0 /\ nEvents = 0
             /\ fragments = <<>> /\ full_output = <<>>
             /\ displayed \in {Placeholder, RejectionText, ErrorNotice(raised)}

\* a rejected second message, after a first message that was streamed
C17_Witness ==
    /\ Finished /\ verdict = "not_homework" /\ runs = 0
    /\ Len(received) = 2 /\ AssistantCount(preHistory) = 1

----------------------------------------------------------------------------
(* C18: terminal states *)

\* C18: the handling of every message whose placeholder was shown ends in
\* one of the terminal states REJECTED, DELIVERED, EMPTY_FALLBACK or FAULTED,
\* and the visible message then shows that state's content, never the
\* placeholder or a partial stream.
C18_TerminalStateFinalized ==
    (Finished /\ sentNow = 1)
        => /\ outcome \in {"REJECTED", "DELIVERED", "EMPTY_FALLBACK", "FAULTED"}
           /\ (outcome = "REJECTED" => displayed = RejectionText)
           /\ (outcome = "DELIVERED" => displayed = full_output)
           /\ (outcome = "EMPTY_FALLBACK" => displayed = FallbackText)
           /\ (outcome = "FAULTED" => displayed = ErrorNotice(raised))

----------------------------------------------------------------------------
(* C19: alternation *)

\* C19: with the messages of the session handled one at a time, every
\* assistant turn in the history directly follows a user turn (the one of the
\* message it answers), so no two assistant turns are adjacent and there are
\* never more assistant turns than user turns; when every message received
\* has got its assistant turn the history alternates strictly, user first.
C19_Alternation ==
    /\ \A i \in 1..Len(history) :
          history[i].role = "assistant"
              => (i > 1 /\ history[i - 1].role = "user")
    /\ Len(history) = Len(received) + AssistantCount(history)
    /\ AssistantCount(history) <= Len(received)
    /\ AssistantCount(history) > AssistantCount(preHistory)
          => /\ history[Len(history)].role = "assistant"
             /\ history[Len(history) - 1] = [role |-> "user", content |-> userMsg]
    /\ AssistantCount(history) = Len(received)
          => \A i \in 1..Len(history) :
                history[i].role = IF i % 2 = 1 THEN "user" ELSE "assistant"

\* two messages, both delivered: user, assistant, user, assistant
C19_Witness ==
    /\ Finished /\ outcome = "DELIVERED" /\ Len(received) = 2
    /\ Len(history) = 4 /\ history[2].role = "assistant"
    /\ history[3].role = "user"

----------------------------------------------------------------------------
(* C20: no blank assistant turn *)

\* C20: every assistant turn stored in the history has content that is not
\* empty and not whitespace-only, and so has every assistant turn of the
\* history given to the guardrail.
C20_NoBlankAssistantTurn ==
    /\ \A i \in 1..Len(history) :
          history[i].role = "assistant"
              => (history[i].content # <<>> /\ ~Blank(history[i].content))
    /\ \A i \in 1..Len(guardInput) :
          guardInput[i].role = "assistant"
              => (guardInput[i].content # <<>> /\ ~Blank(guardInput[i].content))

\* whitespace-only text was streamed and dropped, after an earlier delivery
C20_Witness ==
    /\ Finished /\ outcome = "EMPTY_FALLBACK" /\ final_output = "object"
    /\ Concat(fragments) # <<>> /\ Blank(Concat(fragments))
    /\ AssistantCount(history) = 1 /\ AssistantCount(guardInput) = 1

----------------------------------------------------------------------------
(* C15: independent sessions *)

\* C15: under every interleaving of the handlers of several sessions, a step
\* taken for one session (on any path, rejection and fault included) leaves
\* the history, and the list holding it, of every other session unchanged; no
\* two sessions hold the same list; and the module-level agent profiles and
\* model configuration, the only objects all sessions use, are never modified.
C15_SessionsIndependent ==
    [][/\ \A t \in Sessions :
             actor' # t
                 => /\ store'[t] = store[t]
                    /\ (IF store'[t] = "none" THEN <<>> ELSE lists'[store'[t]])
                           = HistoryOf(t)
       /\ \A t, u \in Sessions :
             (t # u /\ store'[t] # "none") => store'[t] # store'[u]
       /\ profiles' = profiles /\ profiles = Profiles]_vars

\* one session is in the middle of its stream while the other has finished
\* a message with a reply stored
C15_Witness ==
    /\ task["s1"].pc = "stream" /\ Len(HistoryOf("s1")) = 1
    /\ task["s2"].pc = "done" /\ Len(HistoryOf("s2")) = 2
    /\ HistoryOf("s1")[1] # HistoryOf("s2")[1]

====
